---------------------------- MODULE Spec2Model ----------------------------
(***************************************************************************)
(* Model of esparrag_meta_service (src/src/lib.rs): the service schema     *)
(* (ServiceMeta / Action / Parameter / Output / ParameterType), the        *)
(* document validator ServiceMeta::caters with its helpers get_action and  *)
(* caters_parameter, and the serde encoding of the schema.                 *)
(***************************************************************************)
EXTENDS Integers, Naturals, Sequences, FiniteSets, TLC

VARIABLES
    schema,     \* the ServiceMeta (self); read-only after construction
    request,    \* the serde_json::Value handed to caters
    pc,         \* "ready" before the call, "done" after it (codec: "encoded", "decoded")
    action,     \* caters' local `action`: index into schema.actions, 0 = None
    checked,    \* the values caters_parameter returned, in loop order
    result,     \* what caters returned: "Ok" or the Err string
    encoded,    \* the schema as a JSON value (serde Serialize)
    decoded     \* the schema read back from `encoded` (serde Deserialize)

vars == <<schema, request, pc, action, checked, result, encoded, decoded>>

(***************************************************************************)
(* Option<T>: None is the empty sequence, Some(x) the one-element one.     *)
(***************************************************************************)
None == <<>>
Some(x) == <<x>>
IsSome(o) == Len(o) > 0
Unwrap(o) == o[1]

(***************************************************************************)
(* 64-bit integers.  TLC's integers are 32 bits wide, so a u64 is kept as  *)
(* four 16-bit limbs, least significant first; an i64 is a sign and a      *)
(* magnitude.                                                              *)
(***************************************************************************)
Base == 2^16

U8Bits == 8
U16Bits == 16
U32Bits == 32
U64Bits == 64
I8Bits == 8
I16Bits == 16
I32Bits == 32
I64Bits == 64

NLimbs == U64Bits \div 16

\* 2^e for 0 <= e < 16
Pow2(e) == 2^e

\* the limbs of 2^bits - 1, 0 <= bits <= 64
MaxOfBits(bits) ==
    [i \in 1..NLimbs |->
        IF bits >= 16 * i THEN Base - 1
        ELSE IF bits > 16 * (i - 1) THEN Pow2(bits - 16 * (i - 1)) - 1
        ELSE 0]

RECURSIVE LeqFrom(_, _, _)
LeqFrom(a, b, i) ==
    IF i = 0 THEN TRUE
    ELSE IF a[i] # b[i] THEN a[i] < b[i]
    ELSE LeqFrom(a, b, i - 1)

\* a <= b on u64
LeqU64(a, b) == LeqFrom(a, b, NLimbs)

\* a <= b on i64 (sign and magnitude)
LeqI64(a, b) ==
    IF a.neg /\ ~b.neg THEN TRUE
    ELSE IF ~a.neg /\ b.neg THEN FALSE
    ELSE IF a.neg THEN LeqU64(b.mag, a.mag)
    ELSE LeqU64(a.mag, b.mag)

\* the limbs of the digits d (any integers), least significant first, with the
\* carry that is left after the last one
RECURSIVE Norm(_, _, _)
Norm(d, i, carry) ==
    IF i > Len(d) THEN [limbs |-> <<>>, carry |-> carry]
    ELSE LET val == d[i] + carry
             limb == val % Base
             rest == Norm(d, i + 1, (val - limb) \div Base)
         IN  [limbs |-> <<limb>> \o rest.limbs, carry |-> rest.carry]

\* m + 1 on u64 limbs (m < 2^64 - 1)
Succ(m) == Norm([i \in 1..NLimbs |-> m[i] + (IF i = 1 THEN 1 ELSE 0)], 1, 0).limbs

u8_max == MaxOfBits(U8Bits)
u16_max == MaxOfBits(U16Bits)
u32_max == MaxOfBits(U32Bits)
u64_max == MaxOfBits(U64Bits)
i8_max == [neg |-> FALSE, mag |-> MaxOfBits(I8Bits - 1)]
i16_max == [neg |-> FALSE, mag |-> MaxOfBits(I16Bits - 1)]
i32_max == [neg |-> FALSE, mag |-> MaxOfBits(I32Bits - 1)]
i64_max == [neg |-> FALSE, mag |-> MaxOfBits(I64Bits - 1)]

(***************************************************************************)
(* serde_json::Value.  Every value is [tag, v]; a Number's v is the        *)
(* library's N: PosInt(u64), NegInt(i64, always negative) or Float(f64).   *)
(* A float keeps its literal: the validator never reads its value.         *)
(***************************************************************************)
JNull == [tag |-> "Null", v |-> <<>>]
JBool(b) == [tag |-> "Bool", v |-> b]
JString(s) == [tag |-> "String", v |-> s]
JArray(s) == [tag |-> "Array", v |-> s]
JObject(f) == [tag |-> "Object", v |-> f]
PosInt(m) == [tag |-> "Number", v |-> [kind |-> "PosInt", mag |-> m, lit |-> ""]]
NegInt(m) == [tag |-> "Number", v |-> [kind |-> "NegInt", mag |-> m, lit |-> ""]]
Float(l) == [tag |-> "Number", v |-> [kind |-> "Float", mag |-> MaxOfBits(0), lit |-> l]]

\* Value::get(&str): the member of an object, None for anything else
get(value, key) ==
    IF value.tag = "Object" /\ key \in DOMAIN value.v THEN Some(value.v[key]) ELSE None

\* value[&str]: the member of an object, Null for anything else
Index(value, key) ==
    IF IsSome(get(value, key)) THEN Unwrap(get(value, key)) ELSE JNull

as_u64(value) ==
    IF value.tag = "Number" /\ value.v.kind = "PosInt" THEN Some(value.v.mag) ELSE None

as_i64(value) ==
    IF value.tag # "Number" THEN None
    ELSE IF value.v.kind = "PosInt"
         THEN IF LeqU64(value.v.mag, i64_max.mag)
              THEN Some([neg |-> FALSE, mag |-> value.v.mag])
              ELSE None
    ELSE IF value.v.kind = "NegInt" THEN Some([neg |-> TRUE, mag |-> value.v.mag])
    ELSE None

is_f64(value) == value.tag = "Number" /\ value.v.kind = "Float"
is_boolean(value) == value.tag = "Bool"
is_string(value) == value.tag = "String"
as_str(value) == IF value.tag = "String" THEN Some(value.v) ELSE None

\* Vec<String>::contains
contains(possibles, s) == \E i \in 1..Len(possibles) : possibles[i] = s

(***************************************************************************)
(* The schema.                                                             *)
(***************************************************************************)
UnitKinds ==
    {"Bool", "Uint8", "Uint16", "Uint32", "Uint64", "Int8", "Int16", "Int32",
     "Float", "String"}

Kind(tag) == [tag |-> tag, allowed |-> <<>>]
Enum(possibles) == [tag |-> "Enum", allowed |-> possibles]

Parameter(name, type, required, default) ==
    [param_name |-> name, description |-> "", type_ |-> type,
     required |-> required, default |-> default]

Output(name, type) == [param_name |-> name, description |-> "", type_ |-> type]

Action(name, description, parameters, outputs) ==
    [action_name |-> name, description |-> description,
     parameters |-> parameters, outputs |-> outputs]

ServiceMeta(name, actions) ==
    [service_name |-> name, description |-> "", actions |-> actions]

(***************************************************************************)
(* ServiceMeta::get_action, caters_parameter, caters.                      *)
(***************************************************************************)
ActionNotFound == "action not found"
ParameterNotFound == "Parameter not found"

\* str::to_lowercase on the strings of the model
to_lowercase(s) ==
    CASE s = "A" -> "a"
      [] s = "RED" -> "red"
      [] s = "BLUE" -> "blue"
      [] s = "ORANGE" -> "orange"
      [] OTHER -> s

\* get_action comparing the names without regard to case
get_action_nocase(self, req) ==
    LET requested_action == Index(req, "action_name")
        hits == {i \in 1..Len(self.actions) :
                    to_lowercase(requested_action.v)
                        = to_lowercase(self.actions[i].action_name)}
    IN  IF requested_action.tag = "String" /\ hits # {}
        THEN CHOOSE i \in hits : \A j \in hits : i <= j
        ELSE 0

\* get_action returning the last match (rfind for find)
get_action_last(self, req) ==
    LET requested_action == Index(req, "action_name")
        hits == {i \in 1..Len(self.actions) :
                    requested_action.v = self.actions[i].action_name}
    IN  IF requested_action.tag = "String" /\ hits # {}
        THEN CHOOSE i \in hits : \A j \in hits : i >= j
        ELSE 0

\* Iterator::find: the first position that matches, 0 for None
get_action(self, req) ==
    LET requested_action == Index(req, "action_name")
        hits == {i \in 1..Len(self.actions) :
                    requested_action.v = self.actions[i].action_name}
    IN  IF requested_action.tag = "String" /\ hits # {}
        THEN CHOOSE i \in hits : \A j \in hits : i <= j
        ELSE 0

\* check_unsigned falling through to true when the value is no u64
check_unsigned_lenient(requested_parameter, max) ==
    LET value == as_u64(requested_parameter)
    IN  IF IsSome(value) THEN LeqU64(Unwrap(value), max) ELSE TRUE

\* the Uint8 / Uint16 / Uint32 / Uint64 arms: as_u64, then value <= max
check_unsigned(requested_parameter, max) ==
    LET value == as_u64(requested_parameter)
    IN  IF IsSome(value) THEN LeqU64(Unwrap(value), max) ELSE FALSE

\* check_signed with the lower bound -(max + 1) checked as well
check_signed_ranged(requested_parameter, max) ==
    LET value == as_i64(requested_parameter)
    IN  IF IsSome(value)
        THEN /\ LeqI64(Unwrap(value), max)
             /\ LeqI64([neg |-> TRUE, mag |-> Succ(max.mag)], Unwrap(value))
        ELSE FALSE

\* the Int8 / Int16 / Int32 arms: as_i64, then value <= max
check_signed(requested_parameter, max) ==
    LET value == as_i64(requested_parameter)
    IN  IF IsSome(value) THEN LeqI64(Unwrap(value), max) ELSE FALSE

\* check_enum comparing without regard to case
check_enum_nocase(requested_parameter, possibles) ==
    LET value == as_str(requested_parameter)
    IN  IF IsSome(value)
        THEN \E i \in 1..Len(possibles) :
                to_lowercase(possibles[i]) = to_lowercase(Unwrap(value))
        ELSE FALSE

\* the Enum arm: as_str, then possibles.contains
check_enum(requested_parameter, possibles) ==
    LET value == as_str(requested_parameter)
    IN  IF IsSome(value) THEN contains(possibles, Unwrap(value)) ELSE FALSE

\* the Uint64 arm comparing against u64::max_value()
uint64_bound_full == u64_max

\* the bound the Uint64 arm compares against
uint64_bound == u32_max

\* the Float arm
check_float(requested_parameter) == is_f64(requested_parameter)

\* no early return: every parameter is inspected
skip_optional_never(parameter) == FALSE

\* the early return for a parameter that is not required
skip_optional(parameter) == ~parameter.required

caters_parameter(parameter, req) ==
    IF skip_optional(parameter) THEN TRUE
    ELSE LET got == get(req, parameter.param_name) IN
         IF ~IsSome(got) THEN FALSE
         ELSE LET requested_parameter == Unwrap(got)
                  t == parameter.type_.tag
              IN  CASE t = "Uint8" -> check_unsigned(requested_parameter, u8_max)
                    [] t = "Uint16" -> check_unsigned(requested_parameter, u16_max)
                    [] t = "Uint32" -> check_unsigned(requested_parameter, u32_max)
                    [] t = "Uint64" -> check_unsigned(requested_parameter, uint64_bound)
                    [] t = "Int8" -> check_signed(requested_parameter, i8_max)
                    [] t = "Int16" -> check_signed(requested_parameter, i16_max)
                    [] t = "Int32" -> check_signed(requested_parameter, i32_max)
                    [] t = "Bool" -> is_boolean(requested_parameter)
                    [] t = "Float" -> check_float(requested_parameter)
                    [] t = "String" -> is_string(requested_parameter)
                    [] t = "Enum" ->
                        check_enum(requested_parameter, parameter.type_.allowed)

\* the for loop of caters: what caters_parameter returned for each parameter
\* visited, the loop ending at the first FALSE
RECURSIVE loop(_, _, _)
loop(parameters, req, i) ==
    IF i > Len(parameters) THEN <<>>
    ELSE IF caters_parameter(parameters[i], req)
         THEN <<TRUE>> \o loop(parameters, req, i + 1)
         ELSE <<FALSE>>

\* caters: [action, checked, result]
caters(self, req) ==
    LET a == get_action(self, req) IN
    IF a = 0 THEN [action |-> 0, checked |-> <<>>, result |-> ActionNotFound]
    ELSE LET c == loop(self.actions[a].parameters, req, 1) IN
         [action |-> a, checked |-> c,
          result |-> IF \E k \in 1..Len(c) : ~c[k] THEN ParameterNotFound ELSE "Ok"]

(***************************************************************************)
(* The call of caters on the schema and the request of the state.          *)
(***************************************************************************)
Caters ==
    /\ pc = "ready"
    /\ LET r == caters(schema, request) IN
        /\ action' = r.action
        /\ checked' = r.checked
        /\ result' = r.result
    /\ pc' = "done"
    /\ UNCHANGED <<schema, request, encoded, decoded>>

(***************************************************************************)
(* The schema description format: what the derived Serialize writes and    *)
(* the derived Deserialize reads, as serde_json values.  The text form     *)
(* (to_string_pretty, from_str) is the library's and is not modelled.      *)
(***************************************************************************)
\* Vec<String>: the array of the strings
encode_strings(items) == JArray([i \in 1..Len(items) |-> JString(items[i])])

\* a unit variant is its name; Enum(v) is {"Enum": v}
encode_type(t) ==
    IF t.tag = "Enum"
    THEN JObject("Enum" :> encode_strings(t.allowed))
    ELSE JString(t.tag)

encode_output(o) ==
    JObject("param_name" :> JString(o.param_name)
            @@ "description" :> JString(o.description)
            @@ "type" :> encode_type(o.type_))

\* skip_serializing_if = "Option::is_some"
skip_default_some(parameter) == IsSome(parameter.default)

\* skip_serializing_if = "Option::is_none"
skip_default(parameter) == ~IsSome(parameter.default)

encode_parameter(q) ==
    LET fields == "param_name" :> JString(q.param_name)
                  @@ "description" :> JString(q.description)
                  @@ "type" :> encode_type(q.type_)
                  @@ "required" :> JBool(q.required)
    IN  IF skip_default(q) THEN JObject(fields)
        ELSE JObject(fields @@ "default" :>
                (IF IsSome(q.default) THEN JString(Unwrap(q.default)) ELSE JNull))

\* Vec<Output>, Vec<Parameter>: the array of the elements' encodings
encode_outputs(items) == JArray([i \in 1..Len(items) |-> encode_output(items[i])])
encode_parameters(items) ==
    JArray([i \in 1..Len(items) |-> encode_parameter(items[i])])

encode_action(a) ==
    JObject("action_name" :> JString(a.action_name)
            @@ "description" :> JString(a.description)
            @@ "parameters" :> encode_parameters(a.parameters)
            @@ "outputs" :> encode_outputs(a.outputs))

\* Vec<Action>
encode_actions(items) == JArray([i \in 1..Len(items) |-> encode_action(items[i])])

encode_service(m) ==
    JObject("service_name" :> JString(m.service_name)
            @@ "description" :> JString(m.description)
            @@ "actions" :> encode_actions(m.actions))

\* the object v has the field key and its value has the tag
HasField(v, key, tag) ==
    v.tag = "Object" /\ key \in DOMAIN v.v /\ v.v[key].tag = tag

decode_string(v) == IF v.tag = "String" THEN Some(v.v) ELSE None

\* a Vec<String> from an array: Some of the elements when each of them decodes
decode_strings(v) ==
    IF v.tag = "Array" /\ \A i \in 1..Len(v.v) : IsSome(decode_string(v.v[i]))
    THEN Some([i \in 1..Len(v.v) |-> Unwrap(decode_string(v.v[i]))])
    ELSE None

\* a name is a unit variant (Enum without its list is refused); an object
\* with one member is that variant with its content
decode_type(v) ==
    IF v.tag = "String"
    THEN (IF v.v \in UnitKinds THEN Some(Kind(v.v)) ELSE None)
    ELSE IF v.tag = "Object" /\ DOMAIN v.v = {"Enum"}
    THEN (LET l == decode_strings(v.v["Enum"])
          IN  IF IsSome(l) THEN Some(Enum(Unwrap(l))) ELSE None)
    ELSE IF v.tag = "Object" /\ Cardinality(DOMAIN v.v) = 1
            /\ \E t \in UnitKinds : DOMAIN v.v = {t} /\ v.v[t].tag = "Null"
    THEN Some(Kind(CHOOSE t \in UnitKinds : DOMAIN v.v = {t}))
    ELSE None

\* an Option<String> member: absent or null is None; Err is the empty result
decode_default(v) ==
    IF "default" \notin DOMAIN v.v \/ v.v["default"].tag = "Null" THEN Some(None)
    ELSE IF v.v["default"].tag = "String" THEN Some(Some(v.v["default"].v))
    ELSE None

decode_output(v) ==
    IF /\ HasField(v, "param_name", "String")
       /\ HasField(v, "description", "String")
       /\ v.tag = "Object" /\ "type" \in DOMAIN v.v /\ IsSome(decode_type(v.v["type"]))
    THEN Some([param_name |-> v.v["param_name"].v,
               description |-> v.v["description"].v,
               type_ |-> Unwrap(decode_type(v.v["type"]))])
    ELSE None

decode_parameter(v) ==
    IF /\ HasField(v, "param_name", "String")
       /\ HasField(v, "description", "String")
       /\ v.tag = "Object" /\ "type" \in DOMAIN v.v /\ IsSome(decode_type(v.v["type"]))
       /\ HasField(v, "required", "Bool")
       /\ IsSome(decode_default(v))
    THEN Some([param_name |-> v.v["param_name"].v,
               description |-> v.v["description"].v,
               type_ |-> Unwrap(decode_type(v.v["type"])),
               required |-> v.v["required"].v,
               default |-> Unwrap(decode_default(v))])
    ELSE None

\* a Vec<Output> from an array
decode_outputs(v) ==
    IF v.tag = "Array" /\ \A i \in 1..Len(v.v) : IsSome(decode_output(v.v[i]))
    THEN Some([i \in 1..Len(v.v) |-> Unwrap(decode_output(v.v[i]))])
    ELSE None

\* a Vec<Parameter> from an array
decode_parameters(v) ==
    IF v.tag = "Array" /\ \A i \in 1..Len(v.v) : IsSome(decode_parameter(v.v[i]))
    THEN Some([i \in 1..Len(v.v) |-> Unwrap(decode_parameter(v.v[i]))])
    ELSE None

decode_action(v) ==
    IF /\ HasField(v, "action_name", "String")
       /\ HasField(v, "description", "String")
       /\ HasField(v, "parameters", "Array")
       /\ IsSome(decode_parameters(v.v["parameters"]))
       /\ HasField(v, "outputs", "Array")
       /\ IsSome(decode_outputs(v.v["outputs"]))
    THEN Some([action_name |-> v.v["action_name"].v,
               description |-> v.v["description"].v,
               parameters |-> Unwrap(decode_parameters(v.v["parameters"])),
               outputs |-> Unwrap(decode_outputs(v.v["outputs"]))])
    ELSE None

\* a Vec<Action> from an array
decode_actions(v) ==
    IF v.tag = "Array" /\ \A i \in 1..Len(v.v) : IsSome(decode_action(v.v[i]))
    THEN Some([i \in 1..Len(v.v) |-> Unwrap(decode_action(v.v[i]))])
    ELSE None

\* ServiceMeta::from_json on the value: Some(meta) for Ok, None for Err
from_json(v) ==
    IF /\ HasField(v, "service_name", "String")
       /\ HasField(v, "description", "String")
       /\ HasField(v, "actions", "Array")
       /\ IsSome(decode_actions(v.v["actions"]))
    THEN Some([service_name |-> v.v["service_name"].v,
               description |-> v.v["description"].v,
               actions |-> Unwrap(decode_actions(v.v["actions"]))])
    ELSE None

\* the schema is serialized
Encode ==
    /\ pc = "ready"
    /\ encoded' = encode_service(schema)
    /\ pc' = "encoded"
    /\ UNCHANGED <<schema, request, action, checked, result, decoded>>

\* the serialized schema is read back
Decode ==
    /\ pc = "encoded"
    /\ decoded' = from_json(encoded)
    /\ pc' = "decoded"
    /\ UNCHANGED <<schema, request, action, checked, result, encoded>>

(***************************************************************************)
(* Inputs.  Numbers are taken around the powers of two the validator's     *)
(* bounds sit at: 2^e + o for e in Exps and -(Delta+1) <= o <= Delta.      *)
(***************************************************************************)
Delta == 1
MaxEnum == 2

Exps == {0, 2, 3, 7, 8, 15, 16, 31, 32, 63, 64}

\* 2^e + o as a u64, None when it is negative or above 2^64 - 1
\* (2^64 + o is taken as (2^64 - 1) + (o + 1))
Near(e, o) ==
    LET d == IF e = 16 * NLimbs
             THEN [i \in 1..NLimbs |-> (Base - 1) + (IF i = 1 THEN o + 1 ELSE 0)]
             ELSE [i \in 1..NLimbs |->
                      (IF i = e \div 16 + 1 THEN Pow2(e % 16) ELSE 0)
                      + (IF i = 1 THEN o ELSE 0)]
        n == Norm(d, 1, 0)
    IN  IF n.carry = 0 THEN Some(n.limbs) ELSE None

Magnitudes ==
    {Unwrap(Near(e, o)) : <<e, o>> \in
        {p \in Exps \X (-(Delta + 1)..Delta) : IsSome(Near(p[1], p[2]))}}

Zero == MaxOfBits(0)
i64_min_mag == Unwrap(Near(I64Bits - 1, 0))

Numbers ==
    {PosInt(m) : m \in Magnitudes}
    \cup {NegInt(m) : m \in {k \in Magnitudes : k # Zero /\ LeqU64(k, i64_min_mag)}}
    \cup {Float(l) : l \in {"1.5", "3.0", "-7.5"}}

Strings == {"RED", "BLUE", "red", "ORANGE", ""}

Values ==
    Numbers
    \cup {JString(s) : s \in Strings}
    \cup {JBool(b) : b \in BOOLEAN}
    \cup {JNull, JArray(<<JString("RED")>>), JObject("RED" :> JBool(TRUE))}

RECURSIVE SeqsUpTo(_, _)
SeqsUpTo(S, n) ==
    IF n = 0 THEN {<<>>}
    ELSE LET shorter == SeqsUpTo(S, n - 1)
         IN  shorter \cup {Append(q, x) : q \in shorter, x \in S}

EnumLists == SeqsUpTo({"RED", "BLUE"}, MaxEnum)

Kinds == {Kind(t) : t \in UnitKinds} \cup {Enum(l) : l \in EnumLists}

\* one action with one parameter "x"; the document names the action and
\* carries x with any value, or not at all
KindSchemas ==
    {ServiceMeta("service_1",
        <<Action("action_1", "", <<Parameter("x", t, r, None)>>, <<>>)>>) :
        t \in Kinds, r \in BOOLEAN}

KindRequests ==
    {JObject("action_name" :> JString("action_1") @@ "x" :> v) : v \in Values}
    \cup {JObject("action_name" :> JString("action_1"))}

Idle ==
    /\ pc = "ready"
    /\ action = 0
    /\ checked = <<>>
    /\ result = ""
    /\ encoded = JNull
    /\ decoded = None

InitKinds ==
    /\ schema \in KindSchemas
    /\ request \in KindRequests
    /\ Idle

NextCaters == Caters

SpecKinds == InitKinds /\ [][NextCaters]_vars

(***************************************************************************)
(* Documents over a set of keys: every object that carries a subset of     *)
(* the keys, each with one of the values offered for it.                   *)
(***************************************************************************)
Objects(keys, valuesFor) ==
    LET all == UNION {valuesFor[k] : k \in keys}
    IN  {JObject(f) : f \in UNION {
            {g \in [D -> all] : \A k \in D : g[k] \in valuesFor[k]} :
                D \in SUBSET keys}}

NotObjects == {JNull, JString("a"), JArray(<<JString("a")>>)}

(***************************************************************************)
(* Parameters: one action "a" whose parameters are any list of at most     *)
(* MaxParams parameters named p, q or action_name, of kind Uint8 or        *)
(* String, required or not.  Names may repeat: nothing in the code         *)
(* forbids it.                                                             *)
(***************************************************************************)
MaxParams == 2

ParamPool ==
    {Parameter(n, Kind(t), r, None) :
        n \in {"p", "q", "action_name"}, t \in {"Uint8", "String"}, r \in BOOLEAN}

ParamSchemas ==
    {ServiceMeta("service_1", <<Action("a", "", ps, <<>>)>>) :
        ps \in SeqsUpTo(ParamPool, MaxParams)}

One == [i \in 1..NLimbs |-> IF i = 1 THEN 1 ELSE 0]

ParamRequests ==
    Objects({"action_name", "p", "q"},
            [k \in {"action_name", "p", "q"} |->
                IF k = "action_name"
                THEN {JString("a"), JString("zz"), PosInt(One)}
                ELSE {PosInt(One), JString("x")}])
    \cup NotObjects

InitParams ==
    /\ schema \in ParamSchemas
    /\ request \in ParamRequests
    /\ Idle

SpecParams == InitParams /\ [][NextCaters]_vars

(***************************************************************************)
(* Lookup: at most MaxActions actions named a, A or b, with no parameter   *)
(* or with one required Uint8 parameter p.  Names may repeat.              *)
(***************************************************************************)
MaxActions == 2

ActionPool ==
    {Action(n, "", ps, <<>>) :
        n \in {"a", "A", "b"},
        ps \in {<<>>, <<Parameter("p", Kind("Uint8"), TRUE, None)>>}}

LookupSchemas ==
    {ServiceMeta("service_1", as) : as \in SeqsUpTo(ActionPool, MaxActions)}

LookupRequests ==
    Objects({"action_name", "p"},
            [k \in {"action_name", "p"} |->
                IF k = "action_name"
                THEN {JString("a"), JString("A"), JString("b"), JString("zz"),
                      PosInt(One), JNull, JBool(TRUE)}
                ELSE {PosInt(One), JString("x")}])
    \cup NotObjects

InitLookup ==
    /\ schema \in LookupSchemas
    /\ request \in LookupRequests
    /\ Idle

SpecLookup == InitLookup /\ [][NextCaters]_vars

(***************************************************************************)
(* Codec: no action, or one action with at most MaxParams parameters       *)
(* (a unit kind or an Enum with its ordered list, required or not, with    *)
(* or without a default) and with or without an output.                    *)
(***************************************************************************)
CodecTypes ==
    {Kind(t) : t \in {"Bool", "Uint32", "String"}}
    \cup {Enum(l) : l \in {<<>>, <<"RED", "BLUE">>, <<"BLUE", "RED">>}}

CodecParams ==
    {[param_name |-> "a_number_1", description |-> "required!", type_ |-> t,
      required |-> r, default |-> d] :
        t \in CodecTypes, r \in BOOLEAN, d \in {None, Some("0")}}

CodecOutputs ==
    {<<>>, <<[param_name |-> "message", description |-> "a message",
              type_ |-> Enum(<<"ENUM_1", "ENUM_2">>)]>>}

CodecSchemas ==
    {[service_name |-> "service_1", description |-> "a test service",
      actions |-> <<>>]}
    \cup {[service_name |-> "service_1", description |-> "a test service",
           actions |-> <<Action("action_1", "action 1 does something", ps, os)>>] :
            ps \in SeqsUpTo(CodecParams, MaxParams), os \in CodecOutputs}

InitCodec ==
    /\ schema \in CodecSchemas
    /\ request = JNull
    /\ Idle

NextCodec == Encode \/ Decode

SpecCodec == InitCodec /\ [][NextCodec]_vars

(***************************************************************************)
(* What the claims are stated with.  The bounds are written out limb by    *)
(* limb, independently of MaxOfBits and LeqU64: m <= 2^32 - 1 says that    *)
(* the two high limbs are zero.                                            *)
(***************************************************************************)
Resolved == schema.actions[action]
ParamAt(k) == Resolved.parameters[k]
Present(req, p) == req.tag = "Object" /\ p.param_name \in DOMAIN req.v
Field(req, p) == req.v[p.param_name]

IsInteger(v) == v.tag = "Number" /\ v.v.kind \in {"PosInt", "NegInt"}
IsNegative(v) == v.tag = "Number" /\ v.v.kind = "NegInt"
IsNonNegative(v) == v.tag = "Number" /\ v.v.kind = "PosInt"

AtMost255(m) == m[1] <= 255 /\ m[2] = 0 /\ m[3] = 0 /\ m[4] = 0
AtMost65535(m) == m[2] = 0 /\ m[3] = 0 /\ m[4] = 0
AtMost4294967295(m) == m[3] = 0 /\ m[4] = 0
AtMost127(m) == m[1] <= 127 /\ m[2] = 0 /\ m[3] = 0 /\ m[4] = 0
AtMost32767(m) == m[1] <= 32767 /\ m[2] = 0 /\ m[3] = 0 /\ m[4] = 0
AtMost2147483647(m) == m[2] <= 32767 /\ m[3] = 0 /\ m[4] = 0

\* spec 4.2 step 3, unsigned kinds: the bound of the kind
WithinUnsigned(tag, m) ==
    CASE tag = "Uint8" -> AtMost255(m)
      [] tag = "Uint16" -> AtMost65535(m)
      [] tag = "Uint32" -> AtMost4294967295(m)
      [] tag = "Uint64" -> AtMost4294967295(m)

\* spec 4.2 step 3, signed kinds: the maximum of the kind
WithinSigned(tag, m) ==
    CASE tag = "Int8" -> AtMost127(m)
      [] tag = "Int16" -> AtMost32767(m)
      [] tag = "Int32" -> AtMost2147483647(m)

UnsignedKinds == {"Uint8", "Uint16", "Uint32", "Uint64"}
SignedKinds == {"Int8", "Int16", "Int32"}

\* the parameters caters has visited: k, with the parameter and what
\* caters_parameter returned for it
Visited == IF pc = "done" THEN 1..Len(checked) ELSE {}

\* C8: a required parameter of an unsigned kind is satisfied if and only if
\* the document's value is a non-negative integer not above the kind's bound:
\* 255 for Uint8, 65535 for Uint16, 2^32 - 1 for Uint32 and for Uint64.
C8_UnsignedBound ==
    \A k \in Visited :
        LET p == ParamAt(k) IN
        (p.required /\ p.type_.tag \in UnsignedKinds) =>
            (checked[k] <=>
                /\ Present(request, p)
                /\ IsNonNegative(Field(request, p))
                /\ WithinUnsigned(p.type_.tag, Field(request, p).v.mag))

\* C8 witness: a Uint64 parameter given 4294967295 is accepted
C8_Witness ==
    /\ pc = "done" /\ action = 1 /\ result = "Ok"
    /\ ParamAt(1).required /\ ParamAt(1).type_.tag = "Uint64"
    /\ Present(request, ParamAt(1))
    /\ Field(request, ParamAt(1)) = PosInt(<<65535, 65535, 0, 0>>)

\* C9: a required parameter of a signed kind is satisfied by every integer
\* not above the kind's maximum (127, 32767, 2147483647), every negative
\* integer included whatever its size, and by no integer above the maximum.
C9_SignedUpperBoundOnly ==
    \A k \in Visited :
        LET p == ParamAt(k) IN
        (/\ p.required /\ p.type_.tag \in SignedKinds
         /\ Present(request, p) /\ IsInteger(Field(request, p))) =>
            (checked[k] <=>
                \/ IsNegative(Field(request, p))
                \/ WithinSigned(p.type_.tag, Field(request, p).v.mag))

\* C9 witness: an Int32 parameter given -2147483649 is accepted
C9_Witness ==
    /\ pc = "done" /\ action = 1 /\ result = "Ok"
    /\ ParamAt(1).required /\ ParamAt(1).type_.tag = "Int32"
    /\ Present(request, ParamAt(1))
    /\ Field(request, ParamAt(1)) = NegInt(<<1, 32768, 0, 0>>)

\* C10 (as claimed): a required Float parameter is satisfied by every numeric
\* literal, integer-valued ones included, and by no other value.
C10_FloatAnyNumber ==
    \A k \in Visited :
        LET p == ParamAt(k) IN
        (p.required /\ p.type_.tag = "Float" /\ Present(request, p)) =>
            (checked[k] <=> Field(request, p).tag = "Number")

\* C6: a required Enum(allowed) parameter is satisfied if and only if the
\* document's value is a string equal to one of the strings of allowed.
C6_EnumExact ==
    \A k \in Visited :
        LET p == ParamAt(k) IN
        (p.required /\ p.type_.tag = "Enum") =>
            (checked[k] <=>
                /\ Present(request, p)
                /\ Field(request, p).tag = "String"
                /\ \E i \in 1..Len(p.type_.allowed) :
                        p.type_.allowed[i] = Field(request, p).v)

\* C6 witness: "RED" against Enum(["RED", "BLUE"]) is accepted
C6_Witness ==
    /\ pc = "done" /\ action = 1 /\ result = "Ok"
    /\ ParamAt(1).required /\ ParamAt(1).type_ = Enum(<<"RED", "BLUE">>)
    /\ Present(request, ParamAt(1))
    /\ Field(request, ParamAt(1)) = JString("RED")

(***************************************************************************)
(* Document mode as a whole.                                               *)
(***************************************************************************)
\* the document has a string action_name that is the name of an action
NamesDeclaredAction(req) ==
    /\ req.tag = "Object"
    /\ "action_name" \in DOMAIN req.v
    /\ req.v["action_name"].tag = "String"
    /\ \E i \in 1..Len(schema.actions) :
            schema.actions[i].action_name = req.v["action_name"].v

\* the first action, in declaration order, that has the document's action_name
FirstNamed(req) ==
    CHOOSE i \in 1..Len(schema.actions) :
        /\ schema.actions[i].action_name = req.v["action_name"].v
        /\ \A j \in 1..(i - 1) :
                schema.actions[j].action_name # req.v["action_name"].v

\* spec 4.2 step 3: the value is compatible with the declared kind
SpecCompatible(t, v) ==
    CASE t.tag = "Bool" -> v.tag = "Bool"
      [] t.tag = "String" -> v.tag = "String"
      [] t.tag = "Float" -> v.tag = "Number"
      [] t.tag \in UnsignedKinds ->
            IsNonNegative(v) /\ WithinUnsigned(t.tag, v.v.mag)
      [] t.tag \in SignedKinds ->
            IsNegative(v) \/ (IsNonNegative(v) /\ WithinSigned(t.tag, v.v.mag))
      [] t.tag = "Enum" ->
            v.tag = "String" /\ \E i \in 1..Len(t.allowed) : t.allowed[i] = v.v

\* the required parameter p is present in the document with a compatible value
Supplied(req, p) == Present(req, p) /\ SpecCompatible(p.type_, Field(req, p))

RequiredOf(a) == {k \in 1..Len(a.parameters) : a.parameters[k].required}

\* C1 (as claimed): a document that names a declared action and supplies every
\* required parameter of it with a compatible value is accepted.
C1_CompatibleAccepts ==
    (pc = "done" /\ NamesDeclaredAction(request)) =>
        LET a == schema.actions[FirstNamed(request)] IN
        (\A k \in RequiredOf(a) : Supplied(request, a.parameters[k])) =>
            result = "Ok"

\* C2: a document with no action_name, with an action_name that is not a
\* string, or with one that names no declared action is rejected with
\* "action not found", and no parameter is checked for it.
C2_ActionNotFoundFirst ==
    (pc = "done" /\ ~NamesDeclaredAction(request)) =>
        (result = ActionNotFound /\ checked = <<>> /\ action = 0)

\* C2 witness: a document naming no declared action, whose field p would
\* fail the required Uint8 parameter p of the schema's first action
C2_Witness ==
    /\ pc = "done" /\ result = ActionNotFound
    /\ Len(schema.actions) > 0
    /\ Len(schema.actions[1].parameters) > 0
    /\ request.tag = "Object"
    /\ DOMAIN request.v = {"action_name", "p"}
    /\ request.v["action_name"] = JString("zz")
    /\ request.v["p"] = JString("x")

\* C3: a document that names a declared action and lacks a required
\* parameter of it, or carries it with an incompatible value, is rejected
\* with the parameter error.
C3_ParameterError ==
    (pc = "done" /\ NamesDeclaredAction(request)) =>
        LET a == schema.actions[FirstNamed(request)] IN
        (\E k \in RequiredOf(a) : ~Supplied(request, a.parameters[k])) =>
            result = ParameterNotFound

\* C3 witness: a required Uint8 parameter p given the string "x"
C3_Witness ==
    /\ pc = "done" /\ result = ParameterNotFound /\ action = 1
    /\ \E k \in RequiredOf(Resolved) :
            /\ ParamAt(k).param_name = "p" /\ ParamAt(k).type_.tag = "Uint8"
            /\ Present(request, ParamAt(k))
            /\ Field(request, ParamAt(k)) = JString("x")

\* the names of the parameters of a that are not required / required
OptionalNames(a) ==
    {a.parameters[k].param_name : k \in (1..Len(a.parameters)) \ RequiredOf(a)}
RequiredNames(a) == {a.parameters[k].param_name : k \in RequiredOf(a)}

\* the documents d1 and d2 are objects that differ at most in the presence or
\* the value of fields whose name is in names
DifferOnlyIn(d1, d2, names) ==
    /\ d1.tag = "Object" /\ d2.tag = "Object"
    /\ \A k \in (DOMAIN d1.v \cup DOMAIN d2.v) \ names :
            k \in DOMAIN d1.v /\ k \in DOMAIN d2.v /\ d1.v[k] = d2.v[k]

\* C4 (as claimed): two documents that differ only in fields named after
\* non-required parameters of the resolved action get the same result.
C4_OptionalIgnored ==
    (pc = "done" /\ action # 0) =>
        \A d2 \in ParamRequests :
            DifferOnlyIn(request, d2, OptionalNames(Resolved)) =>
                caters(schema, d2).result = result

\* C4 (amended): two documents that differ only in fields named after
\* non-required parameters of the resolved action, none of them action_name
\* and none of them also the name of a required parameter of that action,
\* get the same result.
C4_OptionalIgnoredDistinctNames ==
    (pc = "done" /\ action # 0) =>
        \A d2 \in ParamRequests :
            DifferOnlyIn(request, d2,
                OptionalNames(Resolved)
                    \ (RequiredNames(Resolved) \cup {"action_name"})) =>
                caters(schema, d2).result = result

\* C4 witness: the document is accepted although its field q is a string
\* and q is a non-required Uint8 parameter; p is required
C4_Witness ==
    /\ pc = "done" /\ action = 1 /\ result = "Ok"
    /\ Len(Resolved.parameters) = 2
    /\ ParamAt(1) = Parameter("p", Kind("Uint8"), TRUE, None)
    /\ ParamAt(2) = Parameter("q", Kind("Uint8"), FALSE, None)
    /\ DOMAIN request.v = {"action_name", "p", "q"}
    /\ request.v["q"] = JString("x")

\* C5: a lookup by the name of an action of the schema returns the first
\* action, in declaration order, whose action_name is exactly that name (the
\* action itself when names are unique), and that action's parameters are
\* the ones the document is validated against.
C5_LookupFirstMatch ==
    (pc = "done" /\ request.tag = "Object" /\ "action_name" \in DOMAIN request.v
        /\ request.v["action_name"].tag = "String") =>
        \A i \in 1..Len(schema.actions) :
            (/\ schema.actions[i].action_name = request.v["action_name"].v
             /\ \A j \in 1..(i - 1) :
                    schema.actions[j].action_name # request.v["action_name"].v) =>
                /\ action = i
                /\ Len(checked) <= Len(schema.actions[i].parameters)
                /\ \A k \in 1..Len(checked) :
                        checked[k] = caters_parameter(schema.actions[i].parameters[k], request)
                /\ (result = "Ok") = (Len(checked) = Len(schema.actions[i].parameters)
                                        /\ \A k \in 1..Len(checked) : checked[k])

\* C5 witness: two actions named "a"; the first requires p, the second has no
\* parameter; a document naming "a" without p is validated against the first
C5_Witness ==
    /\ pc = "done" /\ action = 1 /\ result = ParameterNotFound
    /\ Len(schema.actions) = 2
    /\ schema.actions[1].action_name = "a" /\ schema.actions[2].action_name = "a"
    /\ Len(schema.actions[1].parameters) = 1 /\ Len(schema.actions[2].parameters) = 0
    /\ request.tag = "Object" /\ DOMAIN request.v = {"action_name"}
    /\ request.v["action_name"] = JString("a")

\* C7: encoding a ServiceMeta and decoding the result gives back a value
\* equal to the original, absent defaults and ordered Enum lists included.
C7_RoundTrip == (pc = "decoded") => (decoded = Some(schema))

\* C7 witness: a schema read back equal whose first parameter has no default,
\* written without a "default" member, and an Enum kind written with its list
C7_Witness ==
    /\ pc = "decoded" /\ decoded = Some(schema)
    /\ Len(schema.actions) = 1 /\ Len(schema.actions[1].parameters) = 2
    /\ schema.actions[1].parameters[1].default = None
    /\ schema.actions[1].parameters[1].type_ = Enum(<<"BLUE", "RED">>)
    /\ schema.actions[1].parameters[2].default = Some("0")
    /\ "default" \notin DOMAIN encoded.v["actions"].v[1].v["parameters"].v[1].v
    /\ encoded.v["actions"].v[1].v["parameters"].v[1].v["type"].v["Enum"]
            = JArray(<<JString("BLUE"), JString("RED")>>)
    /\ encoded.v["actions"].v[1].v["parameters"].v[2].v["default"] = JString("0")

=============================================================================
